---- MODULE Spec2Model ----
(***************************************************************************)
(* Model of src/meraki_requests_stage.py: the Meraki REST client layer.   *)
(*                                                                         *)
(*   - _clean_key / the key check of main (credential normalizer)         *)
(*   - make_headers / meraki_session (session factory)                    *)
(*   - _get / _put under tenacity's                                       *)
(*       @retry(stop=stop_after_attempt(5),                               *)
(*              wait=wait_exponential(min=1, max=8))                      *)
(*   - rate_limit_sleep                                                    *)
(*   - find_org_id_by_name / find_network_id / sanity_list_orgs / main    *)
(*                                                                         *)
(* Text that the code inspects character by character (the credential,    *)
(* the Retry-After header) is a sequence of one-character strings.  JSON  *)
(* values are TLA+ values: a list is a sequence, an object is a function  *)
(* from its keys.  Time is counted in whole seconds of time.sleep.        *)
(***************************************************************************)
EXTENDS Integers, Sequences, FiniteSets, TLC

VARIABLES
    ex,        \* call id -> state of one running _get/_put call (tenacity's RetryCallState)
    wire,      \* the requests put on the wire so far, in order: <<[op, url], ...>>
    stage,     \* position of the calling code (main or a resolver function)
    raw_env,   \* os.environ.get("MERAKI_API_KEY_ENAUTO"): Absent or text
    session,   \* the requests.Session built by main, NoSession before
    target,    \* the name a resolver function looks for
    org_id,    \* main's org_id / the org_id argument of find_network_id
    net_id,    \* main's net_id
    ret,       \* what the calling code returned or raised
    api,       \* main's api: the cleaned key (empty before it is read)
    stdout     \* the item counts sanity_list_orgs has printed

vars == <<ex, wire, stage, raw_env, session, target, org_id, net_id, ret, api, stdout>>

(***************************************************************************)
(* Python values                                                           *)
(***************************************************************************)
\* Python's None where a string is expected (o.get("name"), a resolver's result)
None == "<None>"

\* an exception object: its class, the HTTP status it reports (0: none) and the
\* attempt of the call that raised it
Err(type, status, attempt) == [type |-> type, status |-> status, attempt |-> attempt]
NoErr == Err("<none>", 0, 0)

\* how a function call ended: a returned value, or a raised exception with its
\* __cause__ (NoErr: none)
Pending == [kind |-> "pending", value |-> None, err |-> NoErr, cause |-> NoErr]
Returned(v) == [kind |-> "value", value |-> v, err |-> NoErr, cause |-> NoErr]
Raised(e, cause) == [kind |-> "raise", value |-> None, err |-> e, cause |-> cause]

Min(a, b) == IF a <= b THEN a ELSE b
Max(a, b) == IF a >= b THEN a ELSE b

RECURSIVE Pow2(_)
Pow2(n) == IF n <= 0 THEN 1 ELSE 2 * Pow2(n - 1)

RECURSIVE SumSeq(_)
SumSeq(s) == IF s = <<>> THEN 0 ELSE Head(s) + SumSeq(Tail(s))

(***************************************************************************)
(* Bounds of the model                                                     *)
(***************************************************************************)
\* the longest Retry-After, in seconds, the transport asks for (longer than
\* any wait of the backoff schedule)
MaxRetryAfter == 9
\* longest organization / network list the transport returns to a resolver
MaxListLen == 2

(***************************************************************************)
(* Program constants                                                       *)
(***************************************************************************)
\* stop_after_attempt(5)
MAX_ATTEMPTS == 5
\* wait_exponential(min=1, ...)
WAIT_MIN == 1
\* wait_exponential(..., max=8)
WAIT_MAX == 8
\* len(api) < 20
MIN_KEY_LEN == 20
\* "1" in resp.headers.get("Retry-After", "1")
DEFAULT_RETRY_AFTER == <<"1">>

(***************************************************************************)
(* int(text): Python's integer parse of a header value.  Surrounding      *)
(* whitespace is dropped, one sign is allowed, the rest must be decimal    *)
(* digits; anything else raises ValueError.                                *)
(***************************************************************************)
Digits == <<"0", "1", "2", "3", "4", "5", "6", "7", "8", "9">>
Whitespace == {" ", "\t", "\n", "\r", "\f"}

IsDigit(ch) == \E i \in 1..10 : Digits[i] = ch
DigitVal(ch) == (CHOOSE i \in 1..10 : Digits[i] = ch) - 1

RECURSIVE LStrip(_, _)
LStrip(s, chars) ==
    IF s # <<>> /\ Head(s) \in chars THEN LStrip(Tail(s), chars) ELSE s

RECURSIVE RStrip(_, _)
RStrip(s, chars) ==
    IF s # <<>> /\ s[Len(s)] \in chars
    THEN RStrip(SubSeq(s, 1, Len(s) - 1), chars)
    ELSE s

\* str.strip(chars): every leading and trailing character in chars is removed
Strip(s, chars) == RStrip(LStrip(s, chars), chars)

RECURSIVE DecVal(_)
DecVal(s) == IF s = <<>> THEN 0 ELSE 10 * DecVal(SubSeq(s, 1, Len(s) - 1)) + DigitVal(s[Len(s)])

\* [ok |-> FALSE] stands for ValueError
PyInt(text) ==
    LET t == Strip(text, Whitespace)
        signed == t # <<>> /\ Head(t) \in {"-", "+"}
        body == IF signed THEN Tail(t) ELSE t
    IN  IF body # <<>> /\ \A i \in 1..Len(body) : IsDigit(body[i])
        THEN [ok |-> TRUE, val |-> IF signed /\ Head(t) = "-" THEN 0 - DecVal(body) ELSE DecVal(body)]
        ELSE [ok |-> FALSE, val |-> 0]

\* str(n) for 0 <= n <= 99, the header text a server writes for n seconds
ToText(n) == IF n < 10 THEN <<Digits[n + 1]>> ELSE <<Digits[(n \div 10) + 1], Digits[(n % 10) + 1]>>

(***************************************************************************)
(* The transport: what s.get / s.put can come back with.                   *)
(***************************************************************************)
NoHeaders == [h \in {} |-> <<>>]
RetryAfterHeader(text) == [h \in {"Retry-After"} |-> text]

\* dict.get(key, default)
HeaderGet(headers, key, default) == IF key \in DOMAIN headers THEN headers[key] ELSE default

JsonBody(v) == [json |-> TRUE, value |-> v]
NonJsonBody == [json |-> FALSE, value |-> <<>>]

Response(status, headers, body) ==
    [kind |-> "response", status |-> status, headers |-> headers, body |-> body]
\* requests.exceptions.Timeout after timeout=20
TimedOut == [kind |-> "timeout", status |-> 0, headers |-> NoHeaders, body |-> NonJsonBody]

Is2xx(status) == status >= 200 /\ status <= 299

\* Retry-After texts: absent is the response without the header
RetryAfterSeconds == {0, MaxRetryAfter}
ValidRetryAfterTexts == {ToText(n) : n \in RetryAfterSeconds}
InvalidRetryAfterTexts == {<<"-", "1">>, <<"W", "e", "d", ",">>}

JsonA == <<[id |-> "1", name |-> "A"]>>
JsonB == <<[id |-> "1", name |-> "A"], [id |-> "2", name |-> "B"]>>

RateLimited ==
    {Response(429, NoHeaders, NonJsonBody)}
    \cup {Response(429, RetryAfterHeader(t), NonJsonBody) :
              t \in ValidRetryAfterTexts \cup InvalidRetryAfterTexts}

\* the responses a single _get/_put call is exercised with
Responses ==
    {Response(200, NoHeaders, JsonBody(JsonA)),
     Response(201, NoHeaders, JsonBody(JsonB)),
     Response(204, NoHeaders, NonJsonBody),
     Response(300, NoHeaders, JsonBody(JsonA)),
     Response(401, NoHeaders, NonJsonBody),
     Response(500, NoHeaders, NonJsonBody),
     TimedOut}
    \cup RateLimited

(***************************************************************************)
(* rate_limit_sleep: [raised |-> TRUE] is the ValueError of int() on a     *)
(* non-numeric header or of time.sleep() on a negative number; otherwise   *)
(* the thread slept `slept` seconds.                                       *)
(***************************************************************************)
\* (mutant) the Retry-After value is read and the thread does not sleep
rate_limit_sleep_NoSleep(resp) ==
    IF resp.status = 429
    THEN LET retry_after == PyInt(HeaderGet(resp.headers, "Retry-After", DEFAULT_RETRY_AFTER))
         IN  [raised |-> ~retry_after.ok \/ retry_after.val < 0, slept |-> 0]
    ELSE [raised |-> FALSE, slept |-> 0]

rate_limit_sleep(resp) ==
    IF resp.status = 429
    THEN LET retry_after == PyInt(HeaderGet(resp.headers, "Retry-After", DEFAULT_RETRY_AFTER))
         IN  IF ~retry_after.ok \/ retry_after.val < 0
             THEN [raised |-> TRUE, slept |-> 0]
             ELSE [raised |-> FALSE, slept |-> retry_after.val]
    ELSE [raised |-> FALSE, slept |-> 0]

\* Response.raise_for_status(): HTTPError for 4xx and 5xx, nothing otherwise
RaisesForStatus(status) == status >= 400 /\ status < 600

\* what one execution of a decorated function's body comes to
Outcome(failed, value, exc, slept) ==
    [failed |-> failed, value |-> value, exc |-> exc, slept |-> slept]
NoOutcome == Outcome(FALSE, <<>>, NoErr, 0)

\* lines 63-67 of _get, 72-76 of _put: the part the two share
AfterAuthCheck(resp, n) ==
    IF resp.status = 429
    THEN LET rl == rate_limit_sleep(resp)
         IN  IF rl.raised
             THEN Outcome(TRUE, <<>>, Err("ValueError", 0, n), 0)
             ELSE Outcome(TRUE, <<>>, Err("Exception", 429, n), rl.slept)
    ELSE IF RaisesForStatus(resp.status)
    THEN Outcome(TRUE, <<>>, Err("HTTPError", resp.status, n), 0)
    ELSE IF ~resp.body.json
    THEN Outcome(TRUE, <<>>, Err("JSONDecodeError", 0, n), 0)
    ELSE Outcome(FALSE, resp.body.value, NoErr, 0)

\* (mutant) _get without its 401 branch
_get_No401Branch(resp, n) ==
    IF resp.kind = "timeout"
    THEN Outcome(TRUE, <<>>, Err("Timeout", 0, n), 0)
    ELSE AfterAuthCheck(resp, n)

\* the body of _get on attempt n, given what s.get(url, timeout=20) came to
_get(resp, n) ==
    IF resp.kind = "timeout"
    THEN Outcome(TRUE, <<>>, Err("Timeout", 0, n), 0)
    ELSE IF resp.status = 401
    THEN Outcome(TRUE, <<>>, Err("SystemExit", 401, n), 0)
    ELSE AfterAuthCheck(resp, n)

\* the body of _put on attempt n, given what s.put(url, json=payload, timeout=20) came to
_put(resp, n) ==
    IF resp.kind = "timeout"
    THEN Outcome(TRUE, <<>>, Err("Timeout", 0, n), 0)
    ELSE AfterAuthCheck(resp, n)

(***************************************************************************)
(* tenacity: @retry(stop=stop_after_attempt(5),                            *)
(*                  wait=wait_exponential(min=1, max=8))                   *)
(* with retry=retry_if_exception_type(Exception) and reraise=False, the    *)
(* defaults.                                                               *)
(***************************************************************************)
\* isinstance(e, Exception): SystemExit derives from BaseException only
IsException(e) == e.type \in {"Exception", "HTTPError", "ValueError", "JSONDecodeError", "Timeout"}

\* retry_if_exception_type(Exception)
RetryPredicate(fut) == fut.failed /\ IsException(fut.exc)

\* (mutant) one attempt counter for the whole session: every request made on
\* it, by any call, draws on the same budget
StopAfterAttempt_Shared(attempt_number) == Len(wire) >= MAX_ATTEMPTS

\* (mutant) gives up after the 4th attempt
StopAfterAttempt_Four(attempt_number) == attempt_number >= MAX_ATTEMPTS - 1

\* (mutant) gives up only after a 6th attempt
StopAfterAttempt_Six(attempt_number) == attempt_number > MAX_ATTEMPTS

\* stop_after_attempt(5)
StopAfterAttempt(attempt_number) == attempt_number >= MAX_ATTEMPTS

\* (mutant) the exponent is the attempt number, not the attempt number less one
WaitExponential_OffByOne(attempt_number) ==
    Max(Max(0, WAIT_MIN), Min(Pow2(attempt_number), WAIT_MAX))

\* wait_exponential(multiplier=1, min=1, max=8, exp_base=2) after attempt n:
\* max(min, min(multiplier * exp_base ** (n - 1), max))
WaitExponential(attempt_number) ==
    Max(Max(0, WAIT_MIN), Min(Pow2(attempt_number - 1), WAIT_MAX))

\* reraise=False: raise RetryError(fut) from fut.exception()
RetryErrorOf(fut, attempt_number) ==
    Raised(Err("RetryError", 0, attempt_number), fut.exc)

\* the outcome of the attempt is the outcome of the call: fut.result()
FutResult(fut) == IF fut.failed THEN Raised(fut.exc, NoErr) ELSE Returned(fut.value)

(***************************************************************************)
(* One call of _get/_put.                                                  *)
(***************************************************************************)
NewCall(op, url) ==
    [op |-> op, url |-> url,
     pc |-> "attempt",          \* attempt: about to run the body; iter: tenacity decides
     attempt_number |-> 1,
     fut |-> NoOutcome,         \* the outcome of the last attempt
     hist |-> <<>>,             \* what the transport answered, per attempt
     rl |-> <<>>,               \* seconds slept in rate_limit_sleep, per attempt
     waits |-> <<>>,            \* seconds slept by tenacity, after each retried attempt
     slept |-> 0,               \* total seconds this call has blocked in time.sleep
     sentAt |-> <<>>,           \* the value of slept when each request was sent
     out |-> Pending]

Body(op, resp, n) == IF op = "get" THEN _get(resp, n) ELSE _put(resp, n)

\* tenacity's DoAttempt: the body runs once, against transport answer resp
Attempt(c, resp) ==
    /\ c \in DOMAIN ex
    /\ ex[c].pc = "attempt"
    /\ LET call == ex[c]
           o == Body(call.op, resp, call.attempt_number)
       IN  /\ ex' = [ex EXCEPT ![c] =
                      [call EXCEPT !.pc = "iter",
                                   !.fut = o,
                                   !.hist = Append(call.hist, resp),
                                   !.rl = Append(call.rl, o.slept),
                                   !.sentAt = Append(call.sentAt, call.slept),
                                   !.slept = call.slept + o.slept]]
           /\ wire' = Append(wire, [op |-> call.op, url |-> call.url])
    /\ UNCHANGED <<stage, raw_env, session, target, org_id, net_id, ret, api, stdout>>

\* tenacity's iter() after an attempt: hand the outcome over, give up, or sleep
Iter(c) ==
    /\ c \in DOMAIN ex
    /\ ex[c].pc = "iter"
    /\ LET call == ex[c]
           fut == call.fut
           n == call.attempt_number
       IN  ex' = [ex EXCEPT ![c] =
                   IF ~RetryPredicate(fut)
                   THEN [call EXCEPT !.pc = "done", !.out = FutResult(fut)]
                   ELSE IF StopAfterAttempt(n)
                   THEN [call EXCEPT !.pc = "done", !.out = RetryErrorOf(fut, n)]
                   ELSE [call EXCEPT !.pc = "attempt",
                                     !.attempt_number = n + 1,
                                     !.waits = Append(call.waits, WaitExponential(n)),
                                     !.slept = call.slept + WaitExponential(n)]]
    /\ UNCHANGED <<wire, stage, raw_env, session, target, org_id, net_id, ret, api, stdout>>

\* the three ways a call ends, in the words of the state machine
Success(call) == call.pc = "done" /\ call.out.kind = "value"
Fatal(call) == call.pc = "done" /\ call.out.kind = "raise" /\ call.out.err.type = "SystemExit"
Exhausted(call) == call.pc = "done" /\ call.out.kind = "raise" /\ call.out.err.type = "RetryError"

(***************************************************************************)
(* Spec: one _get or _put call against every transport behaviour.          *)
(***************************************************************************)
NoEnv == [present |-> FALSE, text |-> <<>>]
NoSession == [built |-> FALSE]

URL_ORGS == <<"organizations">>
URL_PORT == <<"devices", "Q4CB-5A2N-KS54", "switch", "ports", "4">>

Init ==
    /\ \E op \in {"get", "put"} :
          ex = [c \in {1} |-> NewCall(op, IF op = "get" THEN URL_ORGS ELSE URL_PORT)]
    /\ wire = <<>>
    /\ stage = "call"
    /\ raw_env = NoEnv
    /\ session = NoSession
    /\ target = None
    /\ org_id = None
    /\ net_id = None
    /\ ret = Pending
    /\ api = <<>>
    /\ stdout = <<>>

Next ==
    \/ \E c \in DOMAIN ex, resp \in Responses : Attempt(c, resp)
    \/ \E c \in DOMAIN ex : Iter(c)

Spec == Init /\ [][Next]_vars

\* every s.get/s.put returns or times out (timeout=20) and every sleep ends:
\* a call that can take a step takes it
SpecFair == Spec /\ WF_vars(Next)

(***************************************************************************)
(* SpecPair: two threads share one session; each makes _get/_put calls,    *)
(* one after the other, and their attempts interleave freely.              *)
(***************************************************************************)
\* no new call is started once the session has carried this many requests
MaxWire == 5

PairResponses ==
    {Response(200, NoHeaders, JsonBody(JsonA)),
     Response(401, NoHeaders, NonJsonBody),
     Response(429, NoHeaders, NonJsonBody)}

\* a thread whose call has ended makes its next call: the decorated function
\* is entered again, with a retry state of its own
NextCall(c) ==
    /\ c \in DOMAIN ex
    /\ ex[c].pc = "done"
    /\ Len(wire) <= MaxWire
    /\ ex' = [ex EXCEPT ![c] = NewCall(ex[c].op, ex[c].url)]
    /\ UNCHANGED <<wire, stage, raw_env, session, target, org_id, net_id, ret, api, stdout>>

InitPair ==
    /\ \E op \in {"get", "put"} :
          ex = [c \in {1, 2} |-> NewCall(op, IF op = "get" THEN URL_ORGS ELSE URL_PORT)]
    /\ wire = <<>>
    /\ stage = "call"
    /\ raw_env = NoEnv
    /\ session = NoSession
    /\ target = None
    /\ org_id = None
    /\ net_id = None
    /\ ret = Pending
    /\ api = <<>>
    /\ stdout = <<>>

NextPair ==
    \/ \E c \in DOMAIN ex, resp \in PairResponses : Attempt(c, resp)
    \/ \E c \in DOMAIN ex : Iter(c)
    \/ \E c \in DOMAIN ex : NextCall(c)

SpecPair == InitPair /\ [][NextPair]_vars

(***************************************************************************)
(* find_org_id_by_name / find_network_id: the scan of the returned list    *)
(***************************************************************************)
\* o.get("name")
DictGet(o, key) == IF key \in DOMAIN o THEN o[key] ELSE None

\* (mutant) the scan keeps going and the last match wins
RECURSIVE find_org_id_by_name_LastWins(_, _)
find_org_id_by_name_LastWins(orgs, name) ==
    IF orgs = <<>>
    THEN None
    ELSE IF DictGet(orgs[Len(orgs)], "name") = name
    THEN orgs[Len(orgs)]["id"]
    ELSE find_org_id_by_name_LastWins(SubSeq(orgs, 1, Len(orgs) - 1), name)

\* for o in orgs: if o.get("name") == name: return o["id"] / return None
RECURSIVE find_org_id_by_name(_, _)
find_org_id_by_name(orgs, name) ==
    IF orgs = <<>>
    THEN None
    ELSE IF DictGet(Head(orgs), "name") = name
    THEN Head(orgs)["id"]
    ELSE find_org_id_by_name(Tail(orgs), name)

\* for n in nets: if n.get("name") == net_name: return n["id"] / return None
RECURSIVE find_network_id(_, _)
find_network_id(nets, net_name) ==
    IF nets = <<>>
    THEN None
    ELSE IF DictGet(Head(nets), "name") = net_name
    THEN Head(nets)["id"]
    ELSE find_network_id(Tail(nets), net_name)

\* f"{BASE}/organizations/{org_id}/networks"
UrlNetworks(id) == <<"organizations", id, "networks">>

NoCalls == [c \in {} |-> NewCall("get", <<>>)]

\* find_org_id_by_name is entered: its _get starts
FindOrgCall ==
    /\ stage = "find_org"
    /\ ex' = [c \in {1} |-> NewCall("get", URL_ORGS)]
    /\ stage' = "find_org_get"
    /\ UNCHANGED <<wire, raw_env, session, target, org_id, net_id, ret, api, stdout>>

\* its _get has ended: the exception goes on to the caller, or the list is scanned
FindOrgReturn ==
    /\ stage = "find_org_get"
    /\ ex[1].pc = "done"
    /\ ret' = IF ex[1].out.kind = "value"
              THEN Returned(find_org_id_by_name(ex[1].out.value, target))
              ELSE Raised(ex[1].out.err, ex[1].out.cause)
    /\ stage' = "returned"
    /\ UNCHANGED <<ex, wire, raw_env, session, target, org_id, net_id, api, stdout>>

\* find_network_id is entered: its _get starts
FindNetCall ==
    /\ stage = "find_net"
    /\ ex' = [c \in {1} |-> NewCall("get", UrlNetworks(org_id))]
    /\ stage' = "find_net_get"
    /\ UNCHANGED <<wire, raw_env, session, target, org_id, net_id, ret, api, stdout>>

FindNetReturn ==
    /\ stage = "find_net_get"
    /\ ex[1].pc = "done"
    /\ ret' = IF ex[1].out.kind = "value"
              THEN Returned(find_network_id(ex[1].out.value, target))
              ELSE Raised(ex[1].out.err, ex[1].out.cause)
    /\ stage' = "returned"
    /\ UNCHANGED <<ex, wire, raw_env, session, target, org_id, net_id, api, stdout>>

\* print(f"... fetched {len(data)} orgs"): the count sanity_list_orgs prints
sanity_list_orgs(data) == Len(data)

\* sanity_list_orgs is entered: its _get starts
ListOrgsCall ==
    /\ stage = "list_orgs"
    /\ ex' = [c \in {1} |-> NewCall("get", URL_ORGS)]
    /\ stage' = "list_orgs_get"
    /\ UNCHANGED <<wire, raw_env, session, target, org_id, net_id, ret, api, stdout>>

\* lines 103-105: its _get has ended: the exception goes on to the caller, or
\* the count is printed and the function falls off its end, returning None
ListOrgsReturn ==
    /\ stage = "list_orgs_get"
    /\ ex[1].pc = "done"
    /\ IF ex[1].out.kind = "value"
       THEN /\ stdout' = Append(stdout, sanity_list_orgs(ex[1].out.value))
            /\ ret' = Returned(None)
       ELSE /\ ret' = Raised(ex[1].out.err, ex[1].out.cause)
            /\ UNCHANGED stdout
    /\ stage' = "listed"
    /\ UNCHANGED <<ex, wire, raw_env, session, target, org_id, net_id, api>>

(***************************************************************************)
(* SpecResolve: one call of a resolver function, for every list the        *)
(* transport may return and every target name.                             *)
(***************************************************************************)
EntryIds == {"1", "2"}
EntryNames == {"A", "a", "B"}
TargetNames == EntryNames \cup {"Z"}

\* {id, name} objects, and objects that lack the name
Entries ==
    {[id |-> i, name |-> n] : i \in EntryIds, n \in EntryNames}
    \cup {[id |-> i] : i \in EntryIds}

RECURSIVE SeqsUpTo(_, _)
SeqsUpTo(S, n) ==
    IF n = 0
    THEN {<<>>}
    ELSE LET shorter == SeqsUpTo(S, n - 1)
         IN  shorter \cup {Append(q, x) : q \in {t \in shorter : Len(t) = n - 1}, x \in S}

Lists == SeqsUpTo(Entries, MaxListLen)

ResolverResponses ==
    {Response(200, NoHeaders, JsonBody(l)) : l \in Lists}
    \cup {Response(401, NoHeaders, NonJsonBody), Response(500, NoHeaders, NonJsonBody)}

InitResolve ==
    /\ ex = NoCalls
    /\ wire = <<>>
    /\ raw_env = NoEnv
    /\ session = NoSession
    /\ net_id = None
    /\ ret = Pending
    /\ api = <<>>
    /\ stdout = <<>>
    /\ target \in TargetNames
    /\ \/ stage = "find_org" /\ org_id = None
       \/ stage = "find_net" /\ org_id \in EntryIds
       \/ stage = "list_orgs" /\ org_id = None

NextResolve ==
    \/ FindOrgCall
    \/ FindNetCall
    \/ \E resp \in ResolverResponses : Attempt(1, resp)
    \/ Iter(1)
    \/ FindOrgReturn
    \/ FindNetReturn
    \/ ListOrgsCall
    \/ ListOrgsReturn

SpecResolve == InitResolve /\ [][NextResolve]_vars

(***************************************************************************)
(* The credential: _clean_key and the key check of main                    *)
(***************************************************************************)
\* (v or "").strip().strip('"').strip("'")
_clean_key(v) ==
    LET text == IF v.present THEN v.text ELSE <<>>
    IN  Strip(Strip(Strip(text, Whitespace), {"\""}), {"'"})

UpperCase == <<"A", "B", "C", "D", "E", "F", "G", "H", "I", "J", "K", "L", "M",
               "N", "O", "P", "Q", "R", "S", "T", "U", "V", "W", "X", "Y", "Z">>
LowerCase == <<"a", "b", "c", "d", "e", "f", "g", "h", "i", "j", "k", "l", "m",
               "n", "o", "p", "q", "r", "s", "t", "u", "v", "w", "x", "y", "z">>

\* str.lower(), on ASCII text
Lower(text) ==
    [i \in 1..Len(text) |->
        IF \E j \in 1..26 : UpperCase[j] = text[i]
        THEN LowerCase[CHOOSE j \in 1..26 : UpperCase[j] = text[i]]
        ELSE text[i]]

YOUR_API_KEY_HERE ==
    <<"y", "o", "u", "r", "_", "a", "p", "i", "_", "k", "e", "y", "_", "h", "e", "r", "e">>
PLACEHOLDER == <<"p", "l", "a", "c", "e", "h", "o", "l", "d", "e", "r">>

\* (mutant) the key check without its length test
KeyRejected_NoLength(key) ==
    \/ key = <<>>
    \/ Lower(key) \in {YOUR_API_KEY_HERE, PLACEHOLDER}

\* (mutant) a key of exactly 20 characters is rejected too
KeyRejected_AtMost20(key) ==
    \/ key = <<>>
    \/ Lower(key) \in {YOUR_API_KEY_HERE, PLACEHOLDER}
    \/ Len(key) <= MIN_KEY_LEN

\* not api or api.lower() in {"your_api_key_here", "placeholder"} or len(api) < 20
KeyRejected(key) ==
    \/ key = <<>>
    \/ Lower(key) \in {YOUR_API_KEY_HERE, PLACEHOLDER}
    \/ Len(key) < MIN_KEY_LEN

(***************************************************************************)
(* make_headers / meraki_session                                           *)
(***************************************************************************)
BEARER == <<"B", "e", "a", "r", "e", "r", " ">>

make_headers(api_key) ==
    LET k == _clean_key([present |-> TRUE, text |-> api_key])
    IN  [Authorization |-> BEARER \o k,
         XCiscoMerakiAPIKey |-> k,
         Accept |-> "application/json",
         ContentType |-> "application/json",
         UserAgent |-> "ena-mac-requests/1.0"]

meraki_session(headers) ==
    [built |-> TRUE, trust_env |-> FALSE, headers |-> headers,
     proxies |-> [http |-> None, https |-> None]]

(***************************************************************************)
(* main                                                                    *)
(***************************************************************************)
CONFIG == [organization_name |-> "Demo_Silvan", network_name |-> "API Network"]

\* (mutant) the asserts on org_id and net_id let every value through
Falsy_Never(x) == FALSE

\* assert x: None and the empty string are false
Falsy(x) == x = None \/ x = ""

\* a Python exception leaves main: the process ends with it
Propagate(out) == Raised(out.err, out.cause)

\* lines 109-148: the key is read, cleaned and checked; with a rejected key the
\* process exits, otherwise the session is built and sanity_list_orgs starts
\* its _get
MainStart ==
    /\ stage = "main"
    /\ LET key == _clean_key(raw_env)
       IN  /\ api' = key
           /\ IF KeyRejected(key)
              THEN /\ ret' = Raised(Err("SystemExit", 0, 0), NoErr)
                   /\ stage' = "exited"
                   /\ UNCHANGED <<ex, session>>
              ELSE /\ session' = meraki_session(make_headers(key))
                   /\ ex' = [c \in {1} |-> NewCall("get", URL_ORGS)]
                   /\ stage' = "sanity"
                   /\ UNCHANGED ret
    /\ UNCHANGED <<wire, raw_env, target, org_id, net_id, stdout>>

\* lines 103-105, 149-151: sanity_list_orgs returns (the count is printed) and
\* find_org_id_by_name starts its _get
MainAfterSanity ==
    /\ stage = "sanity"
    /\ ex[1].pc = "done"
    /\ IF ex[1].out.kind = "raise"
       THEN /\ ret' = Propagate(ex[1].out)
            /\ stage' = "exited"
            /\ UNCHANGED <<ex, target, stdout>>
       ELSE /\ stdout' = Append(stdout, sanity_list_orgs(ex[1].out.value))
            /\ ex' = [c \in {1} |-> NewCall("get", URL_ORGS)]
            /\ target' = CONFIG.organization_name
            /\ stage' = "org"
            /\ UNCHANGED ret
    /\ UNCHANGED <<wire, raw_env, session, org_id, net_id, api>>

\* lines 80-83, 151-155: the organizations are scanned, org_id is asserted and
\* find_network_id starts its _get
MainAfterOrg ==
    /\ stage = "org"
    /\ ex[1].pc = "done"
    /\ IF ex[1].out.kind = "raise"
       THEN /\ ret' = Propagate(ex[1].out)
            /\ stage' = "exited"
            /\ UNCHANGED <<ex, target, org_id>>
       ELSE LET id == find_org_id_by_name(ex[1].out.value, target)
            IN  /\ org_id' = id
                /\ IF Falsy(id)
                   THEN /\ ret' = Raised(Err("AssertionError", 0, 0), NoErr)
                        /\ stage' = "exited"
                        /\ UNCHANGED <<ex, target>>
                   ELSE /\ ex' = [c \in {1} |-> NewCall("get", UrlNetworks(id))]
                        /\ target' = CONFIG.network_name
                        /\ stage' = "net"
                        /\ UNCHANGED ret
    /\ UNCHANGED <<wire, raw_env, session, net_id, api, stdout>>

\* lines 87-90, 155-157: the networks are scanned, net_id is asserted, main returns
MainAfterNet ==
    /\ stage = "net"
    /\ ex[1].pc = "done"
    /\ IF ex[1].out.kind = "raise"
       THEN /\ ret' = Propagate(ex[1].out)
            /\ stage' = "exited"
            /\ UNCHANGED net_id
       ELSE LET id == find_network_id(ex[1].out.value, target)
            IN  /\ net_id' = id
                /\ IF Falsy(id)
                   THEN /\ ret' = Raised(Err("AssertionError", 0, 0), NoErr)
                        /\ stage' = "exited"
                   ELSE /\ ret' = Returned(None)
                        /\ stage' = "returned"
    /\ UNCHANGED <<ex, wire, raw_env, session, target, org_id, api, stdout>>

(***************************************************************************)
(* SpecMain: one run of main, for every value of MERAKI_API_KEY_ENAUTO and *)
(* every transport behaviour.                                              *)
(***************************************************************************)
\* a key of n characters
Key(n) == [i \in 1..n |-> "k"]
Quoted(q, text) == <<q>> \o text \o <<q>>
Env(text) == [present |-> TRUE, text |-> text]

RawEnvs ==
    {NoEnv, Env(<<>>), Env(<<" ", "\n">>), Env(<<"\"", "\"">>),
     Env(PLACEHOLDER),
     Env(<<"P", "l", "a", "c", "e", "H", "o", "l", "d", "e", "r">>),
     Env(Quoted("'", <<"Y", "O", "U", "R", "_", "A", "P", "I", "_", "K", "E", "Y", "_", "H", "E", "R", "E">>)),
     Env(Key(MIN_KEY_LEN - 1)),
     Env(<<" ">> \o Quoted("\"", Key(MIN_KEY_LEN - 2)) \o <<"\n">>),
     Env(Key(MIN_KEY_LEN)),
     Env(Quoted("\"", Key(MIN_KEY_LEN))),
     Env(Quoted("'", Quoted("\"", Key(MIN_KEY_LEN - 2)))),
     Env(<<" ">> \o Key(MIN_KEY_LEN + 1) \o <<"\n">>)}

ORG == [id |-> "o1", name |-> "Demo_Silvan"]
NET == [id |-> "n1", name |-> "API Network"]
MainLists == {<<>>, <<ORG>>, <<NET>>, <<[id |-> "o2", name |-> "demo_silvan"], ORG>>}

MainResponses ==
    {Response(200, NoHeaders, JsonBody(l)) : l \in MainLists}
    \cup {Response(401, NoHeaders, NonJsonBody), Response(500, NoHeaders, NonJsonBody),
          Response(429, NoHeaders, NonJsonBody)}

InitMain ==
    /\ ex = NoCalls
    /\ wire = <<>>
    /\ stage = "main"
    /\ raw_env \in RawEnvs
    /\ session = NoSession
    /\ target = None
    /\ org_id = None
    /\ net_id = None
    /\ ret = Pending
    /\ api = <<>>
    /\ stdout = <<>>

NextMain ==
    \/ MainStart
    \/ \E resp \in MainResponses : Attempt(1, resp)
    \/ Iter(1)
    \/ MainAfterSanity
    \/ MainAfterOrg
    \/ MainAfterNet

SpecMain == InitMain /\ [][NextMain]_vars

(***************************************************************************)
(* _mask                                                                   *)
(***************************************************************************)
\* "*" * n
Stars(n) == [i \in 1..n |-> "*"]

\* (mutant) keys of up to 7 characters are masked whole
_mask_Upto7(k) ==
    IF k = <<>>
    THEN <<>>
    ELSE IF Len(k) <= 7
    THEN Stars(Len(k))
    ELSE SubSeq(k, 1, 3) \o Stars(Len(k) - 6) \o SubSeq(k, Len(k) - 2, Len(k))

\* (mutant) only keys of fewer than 6 characters are masked whole
_mask_Below6(k) ==
    IF k = <<>>
    THEN <<>>
    ELSE IF Len(k) < 6
    THEN Stars(Len(k))
    ELSE SubSeq(k, 1, 3) \o Stars(Len(k) - 6) \o SubSeq(k, Len(k) - 2, Len(k))

\* if not k: "" / if len(k) <= 6: "*" * len(k) / k[:3] + "*" * (len(k)-6) + k[-3:]
_mask(k) ==
    IF k = <<>>
    THEN <<>>
    ELSE IF Len(k) <= 6
    THEN Stars(Len(k))
    ELSE SubSeq(k, 1, 3) \o Stars(Len(k) - 6) \o SubSeq(k, Len(k) - 2, Len(k))

(***************************************************************************)
(* SpecCred: the credential functions, applied as main applies them, to    *)
(* every environment value of a bounded set.                               *)
(***************************************************************************)
\* longest text over the whitespace/quote alphabet
MaxRawLen == 4
\* longest text given to _mask over its own alphabet
MaxMaskLen == 8

\* line 121: api = _clean_key(raw_env)
CleanKey ==
    /\ stage = "cred"
    /\ api' = _clean_key(raw_env)
    /\ stage' = "cleaned"
    /\ UNCHANGED <<ex, wire, raw_env, session, target, org_id, net_id, ret, stdout>>

\* line 130: _mask(api)
MaskKey ==
    /\ stage = "cleaned"
    /\ ret' = Returned(_mask(api))
    /\ stage' = "masked"
    /\ UNCHANGED <<ex, wire, raw_env, session, target, org_id, net_id, api, stdout>>

\* line 132: the key check, as the boolean "the key is accepted"
ValidateKey ==
    /\ stage = "cleaned"
    /\ ret' = Returned(~KeyRejected(api))
    /\ stage' = "validated"
    /\ UNCHANGED <<ex, wire, raw_env, session, target, org_id, net_id, api, stdout>>

\* lines 144-145: headers = make_headers(api); session = meraki_session(headers)
BuildSession ==
    /\ stage = "cleaned"
    /\ session' = meraki_session(make_headers(api))
    /\ stage' = "session"
    /\ UNCHANGED <<ex, wire, raw_env, target, org_id, net_id, ret, api, stdout>>

\* str.upper() of one ASCII character
Upper(ch) ==
    IF \E j \in 1..26 : LowerCase[j] = ch
    THEN UpperCase[CHOOSE j \in 1..26 : LowerCase[j] = ch]
    ELSE ch

\* text in every mix of upper and lower case
CaseVariants(text) ==
    {[i \in 1..Len(text) |-> IF i \in S THEN Upper(text[i]) ELSE text[i]] :
        S \in SUBSET (1..Len(text))}

Wrappers == {<<>>, <<" ">>, <<"\"">>, <<"'">>, <<"'", "\"">>, <<"\"", "'">>, <<"\"", "\"">>}
KeyCores ==
    {Key(n) : n \in (MIN_KEY_LEN - 3)..(MIN_KEY_LEN + 2)}
    \cup {PLACEHOLDER, YOUR_API_KEY_HERE, Lower(YOUR_API_KEY_HERE),
          [i \in 1..17 |-> Upper(YOUR_API_KEY_HERE[i])]}

CredInputs ==
    {NoEnv}
    \cup {Env(t) : t \in SeqsUpTo({" ", "\"", "'", "k"}, MaxRawLen)}
    \cup {Env(pre \o core \o suf) : pre \in Wrappers, suf \in Wrappers, core \in KeyCores}
    \cup {Env(t) : t \in CaseVariants(PLACEHOLDER)}
    \cup {Env(t) : t \in SeqsUpTo({"a", "*"}, MaxMaskLen)}

InitCred ==
    /\ ex = NoCalls
    /\ wire = <<>>
    /\ stage = "cred"
    /\ raw_env \in CredInputs
    /\ session = NoSession
    /\ target = None
    /\ org_id = None
    /\ net_id = None
    /\ ret = Pending
    /\ api = <<>>
    /\ stdout = <<>>

NextCred ==
    \/ CleanKey
    \/ MaskKey
    \/ ValidateKey
    \/ BuildSession

SpecCred == InitCred /\ [][NextCred]_vars

(***************************************************************************)
(* Properties of one _get/_put call (checked under Spec)                   *)
(***************************************************************************)
Is401(resp) == resp.kind = "response" /\ resp.status = 401
Is429(resp) == resp.kind = "response" /\ resp.status = 429
IsJson2xx(resp) == resp.kind = "response" /\ Is2xx(resp.status) /\ resp.body.json

\* C1: a 401 answered to get ends the call Fatal on that very attempt: it is
\* the last transport call, no rate-limit or backoff sleep follows it, and the
\* caller gets the SystemExit of that attempt, never a retry-exhaustion error.
C1_Get401Fatal ==
    \A c \in DOMAIN ex :
        LET call == ex[c]
        IN  call.op = "get" =>
                \A k \in 1..Len(call.hist) :
                    Is401(call.hist[k]) =>
                        /\ k = Len(call.hist)
                        /\ Len(wire) = k
                        /\ call.pc \in {"iter", "done"}
                        /\ call.rl[k] = 0
                        /\ Len(call.waits) = k - 1
                        /\ call.slept = call.sentAt[k]
                        /\ call.pc = "done" =>
                              /\ Fatal(call)
                              /\ ~Exhausted(call)
                              /\ call.out.err = Err("SystemExit", 401, k)

\* witness of C1: a get whose first answer was 401 has ended Fatal after one call
C1_Witness ==
    \E c \in DOMAIN ex :
        /\ ex[c].op = "get"
        /\ ex[c].pc = "done"
        /\ Len(ex[c].hist) = 1
        /\ Is401(ex[c].hist[1])
        /\ Fatal(ex[c])

\* C2: put classifies every answer as get does; a 401 answered to put ends
\* the call Fatal at once, with no retry and no further transport call.
C2_PutSameAsGet ==
    \A c \in DOMAIN ex :
        LET call == ex[c]
        IN  call.op = "put" =>
                /\ (call.pc = "iter" =>
                       call.fut = _get(call.hist[Len(call.hist)], call.attempt_number))
                /\ \A k \in 1..Len(call.hist) :
                       Is401(call.hist[k]) =>
                           /\ k = Len(call.hist)
                           /\ Len(call.waits) = k - 1
                           /\ call.pc = "done" => Fatal(call)

\* what the specification calls a retryable failure
RetryableFailure(resp) ==
    \/ resp.kind = "timeout"
    \/ resp.kind = "response" /\ ~Is2xx(resp.status) /\ resp.status # 401

\* C3: when every answer to a get is a retryable failure (a non-2xx status
\* other than 401, or a timeout) the call makes exactly 5 transport attempts
\* and then fails.
C3_ExactlyFiveAttempts ==
    \A c \in DOMAIN ex :
        LET call == ex[c]
        IN  (call.op = "get" /\ \A k \in 1..Len(call.hist) : RetryableFailure(call.hist[k])) =>
                /\ Len(call.hist) <= 5
                /\ call.pc = "done" => (Len(call.hist) = 5 /\ call.out.kind = "raise")

\* C4: the backoff wait after failed attempt k is min(8, 2^(k-1)) seconds:
\* 1, 2, 4, 8; the waits never decrease, none exceeds 8, there are at most 4
\* of them (none after the 5th attempt) and they add up to at most 15.
C4_BackoffSchedule ==
    \A c \in DOMAIN ex :
        LET call == ex[c]
            w == call.waits
        IN  /\ Len(w) = call.attempt_number - 1
            /\ Len(w) <= 4
            /\ \A k \in 1..Len(w) : w[k] = Min(8, Pow2(k - 1))
            /\ \A k \in 1..Len(w) : w[k] <= 8
            /\ \A k \in 1..(Len(w) - 1) : w[k] <= w[k + 1]
            /\ Len(w) = 4 => w = <<1, 2, 4, 8>>
            /\ SumSeq(w) <= 15
            /\ (call.pc = "done" /\ Len(call.hist) = 5) => Len(w) = 4

\* witness of C4: a call has failed five times and has waited 1, 2, 4 and 8 seconds
C4_Witness ==
    \E c \in DOMAIN ex :
        /\ Exhausted(ex[c])
        /\ Len(ex[c].hist) = 5
        /\ ex[c].waits = <<1, 2, 4, 8>>

\* C5: when get or put runs out of its 5 attempts, the error the caller gets is
\* the error of the 5th attempt itself: same kind, same status.
C5_LastErrorUnmodified ==
    \A c \in DOMAIN ex :
        LET call == ex[c]
        IN  (call.pc = "done" /\ Len(call.hist) = 5 /\ call.fut.failed /\ ~Is401(call.hist[5])) =>
                /\ call.out.kind = "raise"
                /\ call.out.err = call.fut.exc
                /\ call.out.err.attempt = 5

\* C6: a 429 with Retry-After: n followed by a 2xx with a JSON body: the get
\* succeeds with that body, and at least n seconds of sleep lie between the
\* two requests.
C6_RetryAfterRespected ==
    \A c \in DOMAIN ex :
        LET call == ex[c]
        IN  call.op = "get" =>
                \A k \in 1..(Len(call.hist) - 1), n \in RetryAfterSeconds :
                    (/\ Is429(call.hist[k])
                     /\ call.hist[k].headers = RetryAfterHeader(ToText(n))
                     /\ IsJson2xx(call.hist[k + 1])) =>
                        /\ call.sentAt[k + 1] - call.sentAt[k] >= n
                        /\ Len(call.hist) = k + 1
                        /\ call.pc \in {"iter", "done"}
                        /\ call.pc = "done" =>
                              /\ Success(call)
                              /\ call.out.value = call.hist[k + 1].body.value

\* witness of C6: 429 with the longest Retry-After, then 200, and the get has returned
C6_Witness ==
    \E c \in DOMAIN ex :
        /\ ex[c].op = "get"
        /\ Len(ex[c].hist) = 2
        /\ ex[c].hist[1] = Response(429, RetryAfterHeader(ToText(MaxRetryAfter)), NonJsonBody)
        /\ ex[c].hist[2].status = 200
        /\ Success(ex[c])

\* a 429 whose Retry-After is absent or is no valid number of seconds
NoValidRetryAfter(resp) ==
    /\ Is429(resp)
    /\ \/ "Retry-After" \notin DOMAIN resp.headers
       \/ resp.headers["Retry-After"] \in InvalidRetryAfterTexts

\* C7: on a 429 whose Retry-After is absent or invalid the executor sleeps the
\* default of 1 second in the rate-limit wait and raises the 429 error to
\* retry, as for Retry-After: 1.
C7_DefaultRetryAfter ==
    \A c \in DOMAIN ex :
        LET call == ex[c]
        IN  \A k \in 1..Len(call.hist) :
                NoValidRetryAfter(call.hist[k]) =>
                    /\ call.rl[k] = 1
                    /\ (k = Len(call.hist) /\ call.pc = "iter") =>
                           call.fut.exc = Err("Exception", 429, k)

\* C8: every 2xx answer ends the call in Success on that attempt: it is the
\* last transport call of the call, no backoff wait follows it and its body is
\* what the caller gets.
C8_2xxIsSuccess ==
    \A c \in DOMAIN ex :
        LET call == ex[c]
        IN  \A k \in 1..Len(call.hist) :
                (call.hist[k].kind = "response" /\ Is2xx(call.hist[k].status)) =>
                    /\ k = Len(call.hist)
                    /\ Len(call.waits) = k - 1
                    /\ call.pc \in {"iter", "done"}
                    /\ call.pc = "done" =>
                          /\ Success(call)
                          /\ call.out.value = call.hist[k].body.value

(***************************************************************************)
(* Properties of the resolver functions (checked under SpecResolve)        *)
(***************************************************************************)
\* the positions of list l whose entry has a name and the name is n, exactly
Matches(l, n) == {i \in 1..Len(l) : "name" \in DOMAIN l[i] /\ l[i].name = n}
Least(S) == CHOOSE i \in S : \A j \in S : i <= j

\* C9: find_org_id_by_name and find_network_id return the id of the first
\* entry, in returned order, whose name is exactly the target (entries
\* without a name never match), and None when there is none; on
\* [{id:1,name:A},{id:2,name:B}] the target B gives 2 and Z gives None.
C9_FirstExactMatch ==
    (stage = "returned" /\ Success(ex[1])) =>
        LET l == ex[1].out.value
            m == Matches(l, target)
        IN  /\ ret.kind = "value"
            /\ ret.value = IF m = {} THEN None ELSE l[Least(m)].id
            /\ (l = JsonB /\ target = "B") => ret.value = "2"
            /\ (l = JsonB /\ target = "Z") => ret.value = None
            /\ Len(wire) = Len(ex[1].hist)
            /\ \A i \in 1..Len(wire) : wire[i].op = "get" /\ wire[i].url = ex[1].url

\* witness of C9: two entries have the target's name, the second under another
\* id, and the resolver has returned the first one's id
C9_Witness ==
    /\ stage = "returned"
    /\ Success(ex[1])
    /\ Cardinality(Matches(ex[1].out.value, target)) = 2
    /\ ex[1].out.value[1].id # ex[1].out.value[2].id
    /\ ret.kind = "value"
    /\ ret.value = ex[1].out.value[1].id

(***************************************************************************)
(* Properties of main (checked under SpecMain)                             *)
(***************************************************************************)
\* the environment value, cleaned, is empty, a placeholder or shorter than 20
InvalidLooking(env) ==
    LET cleaned == _clean_key(env)
    IN  \/ Len(cleaned) = 0
        \/ Len(cleaned) < 20
        \/ \E ph \in {YOUR_API_KEY_HERE, PLACEHOLDER} :
              /\ Len(cleaned) = Len(ph)
              /\ \A i \in 1..Len(ph) : Lower(<<cleaned[i]>>) = <<ph[i]>>

\* C10: with a missing or invalid-looking credential main ends with the
\* configuration error before any network call: no request is ever put on
\* the wire, no session is built, no sanity check or resolution is started.
C10_RejectedBeforeNetwork ==
    InvalidLooking(raw_env) =>
        /\ stage \in {"main", "exited"}
        /\ wire = <<>>
        /\ ex = NoCalls
        /\ session = NoSession
        /\ org_id = None /\ net_id = None
        /\ stage = "exited" => (ret.kind = "raise" /\ ret.err = Err("SystemExit", 0, 0))

\* witness of C10: a quoted key that is 20 characters long with its quotes and
\* 18 without has been rejected
C10_Witness ==
    /\ stage = "exited"
    /\ raw_env.present
    /\ Len(raw_env.text) >= 20
    /\ Len(_clean_key(raw_env)) = 18
    /\ ret.kind = "raise"
    /\ wire = <<>>

(***************************************************************************)
(* Properties of the credential functions (checked under SpecCred)         *)
(***************************************************************************)
\* C11: the key check accepts a candidate exactly when its normalized value
\* is not empty, is no placeholder in any mix of case, and has 20 characters
\* or more.
C11_ValidateExact ==
    stage = "validated" =>
        /\ ret.kind = "value"
        /\ ret.value = ~InvalidLooking(raw_env)

\* witness of C11: a key of exactly 20 characters, given under quotes, has
\* been accepted
C11_Witness ==
    /\ stage = "validated"
    /\ ret.value = TRUE
    /\ Len(api) = MIN_KEY_LEN
    /\ raw_env.text # api

\* the characters of out strictly between the first 3 and the last 3 are stars
MiddleMasked(out) == \A i \in 4..(Len(out) - 3) : out[i] = "*"

\* C12 as stated: for every key of 6 characters or more the mask has the
\* key's length, its first 3 and last 3 characters, and stars in between.
C12_MaskFrom6 ==
    (stage = "masked" /\ Len(api) >= 6) =>
        /\ Len(ret.value) = Len(api)
        /\ SubSeq(ret.value, 1, 3) = SubSeq(api, 1, 3)
        /\ SubSeq(ret.value, Len(api) - 2, Len(api)) = SubSeq(api, Len(api) - 2, Len(api))
        /\ MiddleMasked(ret.value)

\* C12, amended: the same for every key of 7 characters or more (a key of
\* exactly 6 is masked whole).
C12_MaskFrom7 ==
    (stage = "masked" /\ Len(api) >= 7) =>
        /\ Len(ret.value) = Len(api)
        /\ SubSeq(ret.value, 1, 3) = SubSeq(api, 1, 3)
        /\ SubSeq(ret.value, Len(api) - 2, Len(api)) = SubSeq(api, Len(api) - 2, Len(api))
        /\ MiddleMasked(ret.value)

\* witness of C12: a key of 7 characters, none of them a star, has been masked
C12_Witness ==
    /\ stage = "masked"
    /\ Len(api) = 7
    /\ \A i \in 1..7 : api[i] # "*"
    /\ ret.value[4] = "*"

\* C13: for every key of 6 characters or fewer, the empty key included, the
\* mask has the key's length and consists of stars only.
C13_ShortFullyMasked ==
    (stage = "masked" /\ Len(api) <= 6) =>
        /\ Len(ret.value) = Len(api)
        /\ \A i \in 1..Len(ret.value) : ret.value[i] = "*"

\* witness of C13: a key of exactly 6 characters, none a star, has been masked
C13_Witness ==
    /\ stage = "masked"
    /\ Len(api) = 6
    /\ \A i \in 1..6 : api[i] # "*"
    /\ ret.value = <<"*", "*", "*", "*", "*", "*">>

\* normalize as C14 words it: surrounding whitespace goes, then one matching
\* pair of surrounding quotes, and nothing more
OneLayer(text) ==
    LET t == Strip(text, Whitespace)
    IN  IF Len(t) >= 2 /\ t[1] = t[Len(t)] /\ t[1] \in {"\"", "'"}
        THEN SubSeq(t, 2, Len(t) - 1)
        ELSE t

\* C14: _clean_key removes surrounding whitespace and then exactly one layer
\* of surrounding quotes (one matching pair) and nothing more; absent input
\* gives the empty string.
C14_OneQuoteLayer ==
    stage = "cleaned" =>
        api = IF raw_env.present THEN OneLayer(raw_env.text) ELSE <<>>

(***************************************************************************)
(* Properties of sanity_list_orgs (checked under SpecResolve)              *)
(***************************************************************************)
\* C15: sanity_list_orgs makes one organization-list _get and returns the
\* number of items of the list to its caller; when the _get ends in an
\* exception, it ends in that same exception and returns no count.
C15_ReturnsCount ==
    stage = "listed" =>
        /\ \A i \in 1..Len(wire) : wire[i].url = URL_ORGS /\ wire[i].op = "get"
        /\ IF ex[1].out.kind = "value"
           THEN /\ ret.kind = "value"
                /\ ret.value # None
                /\ ret.value = Len(ex[1].out.value)
           ELSE ret = Raised(ex[1].out.err, ex[1].out.cause)

(***************************************************************************)
(* Rate limiting and termination of one call (checked under Spec/SpecFair) *)
(***************************************************************************)
\* the executor took its Retry-After block on this answer: a 429 whose header
\* is absent or holds a number of seconds
Blocked(resp) ==
    /\ Is429(resp)
    /\ \/ "Retry-After" \notin DOMAIN resp.headers
       \/ resp.headers["Retry-After"] \in ValidRetryAfterTexts

\* C16 as stated: every Retry-After block is followed by a further attempt
\* of the same request, on whichever attempt (1st to 5th) the 429 arrives: a
\* call never ends with a block as the last thing it did.
C16_EveryBlockRetried ==
    \A c \in DOMAIN ex :
        LET call == ex[c]
        IN  call.pc = "done" =>
                \A k \in 1..Len(call.hist) : Blocked(call.hist[k]) => k < Len(call.hist)

\* C16, amended: a Retry-After block taken on attempts 1 to 4 is followed by
\* a further attempt of the same request, sent no sooner than the block's
\* seconds later; a block taken on the 5th attempt is followed by no attempt:
\* the call ends in RetryError.
C16_BlockRetriedBeforeFifth ==
    \A c \in DOMAIN ex :
        LET call == ex[c]
        IN  \A k \in 1..Len(call.hist) :
                Blocked(call.hist[k]) =>
                    /\ (k < MAX_ATTEMPTS /\ call.pc = "done") => k < Len(call.hist)
                    /\ k < Len(call.hist) =>
                          /\ call.sentAt[k + 1] >= call.sentAt[k] + call.rl[k]
                          /\ wire[k + 1] = wire[k]
                    /\ (k = MAX_ATTEMPTS /\ call.pc = "done") =>
                          (Len(call.hist) = MAX_ATTEMPTS /\ Exhausted(call))

\* witness of C16: a 429 with the longest Retry-After on the 4th attempt, a
\* 5th attempt sent after it, and the call has ended
C16_Witness ==
    \E c \in DOMAIN ex :
        /\ Len(ex[c].hist) = 5
        /\ ex[c].hist[4] = Response(429, RetryAfterHeader(ToText(MaxRetryAfter)), NonJsonBody)
        /\ ex[c].sentAt[5] >= ex[c].sentAt[4] + MaxRetryAfter
        /\ ex[c].pc = "done"

\* a call has ended in exactly one of the three ways
EndedOneWay(call) ==
    /\ call.pc = "done"
    /\ \/ Success(call) /\ ~Fatal(call) /\ ~Exhausted(call)
       \/ ~Success(call) /\ Fatal(call) /\ ~Exhausted(call)
       \/ ~Success(call) /\ ~Fatal(call) /\ Exhausted(call)

\* at most 5 transport calls, at least 1 once ended, one way of ending, and
\* 429s draw on the same budget
WithinBudget ==
    \A c \in DOMAIN ex :
        LET call == ex[c]
        IN  /\ Len(call.hist) <= 5
            /\ call.pc = "attempt" => Len(call.hist) <= 4
            /\ call.pc = "done" => (Len(call.hist) >= 1 /\ EndedOneWay(call))
            /\ (call.pc = "done" /\ \A k \in 1..Len(call.hist) : Is429(call.hist[k])) =>
                  (Len(call.hist) = 5 /\ Exhausted(call))

\* C19: for every sequence of transport outcomes one get or put call makes
\* at least 1 and at most 5 transport calls and always ends, in exactly one
\* of Success, Fatal and exhausted failure; 5 consecutive 429s end the call
\* after exactly 5 transport calls.
C19_TerminatesWithinBudget ==
    /\ []WithinBudget
    /\ <>(\A c \in DOMAIN ex : EndedOneWay(ex[c]))

\* witness of C19: five 429s, of every kind of Retry-After, and the call has
\* ended exhausted
C19_Witness ==
    \E c \in DOMAIN ex :
        /\ Len(ex[c].hist) = 5
        /\ \A k \in 1..5 : Is429(ex[c].hist[k])
        /\ Blocked(ex[c].hist[1])
        /\ ~Blocked(ex[c].hist[2])
        /\ Exhausted(ex[c])

(***************************************************************************)
(* The order of main's requests (checked under SpecMain)                   *)
(***************************************************************************)
\* every request made so far is a get of the organization list
OnlyOrgRequests == \A i \in 1..Len(wire) : wire[i] = [op |-> "get", url |-> URL_ORGS]

\* C17: main uses the executor in a fixed order, sanity check, organization
\* resolution, network resolution: no resolution request before the sanity
\* check has succeeded; the network-list request only after organization
\* resolution returned an id, and for exactly that id; no later request when
\* the sanity check ends in an error or the organization is not found.
C17_WorkflowOrder ==
    /\ stage = "main" => wire = <<>>
    /\ stage = "sanity" => (OnlyOrgRequests /\ Len(wire) = Len(ex[1].hist))
    /\ stage = "org" =>
          /\ OnlyOrgRequests
          /\ stdout # <<>>
          /\ org_id = None
          /\ Len(wire) > Len(ex[1].hist)
    /\ \A i \in 1..Len(wire) :
          wire[i].url # URL_ORGS =>
              /\ stage \in {"net", "exited", "returned"}
              /\ org_id = ORG.id
              /\ wire[i] = [op |-> "get", url |-> UrlNetworks(org_id)]
              /\ \A j \in i..Len(wire) : wire[j] = wire[i]
    /\ stage = "net" => (org_id # None /\ ex[1].url = UrlNetworks(org_id))
    /\ (stage = "exited" /\ ex # NoCalls /\ stdout = <<>>) =>
          /\ ex[1].pc = "done"
          /\ ex[1].out.kind = "raise"
          /\ OnlyOrgRequests
          /\ Len(wire) = Len(ex[1].hist)
    /\ (stage = "exited" /\ org_id = None) => OnlyOrgRequests
    /\ (stage \in {"exited", "returned"} /\ ex # NoCalls) => ex[1].pc = "done"

\* witness of C17: main has returned after a sanity check, an organization
\* resolution and a network resolution that needed a retry
C17_Witness ==
    /\ stage = "returned"
    /\ org_id = ORG.id
    /\ net_id = NET.id
    /\ Len(wire) = 4
    /\ wire[2].url = URL_ORGS
    /\ wire[3].url = UrlNetworks(ORG.id)
    /\ wire[4].url = UrlNetworks(ORG.id)

\* C20: _clean_key is idempotent, so the two authentication headers of the
\* session, which make_headers builds from a second _clean_key, carry exactly
\* the key that main validated and masked: both hold the same value, of 20
\* characters or more.
C20_HeadersCarryValidatedKey ==
    session.built =>
        /\ session.headers.XCiscoMerakiAPIKey = api
        /\ session.headers.Authorization = BEARER \o api
        /\ Len(session.headers.XCiscoMerakiAPIKey) >= MIN_KEY_LEN

(***************************************************************************)
(* The retry state of concurrent and successive calls (checked under       *)
(* SpecPair)                                                               *)
(***************************************************************************)
\* the retry state of a call follows from that call's own attempts alone
OwnRetryState(call) ==
    LET n == Len(call.hist)
    IN  /\ call.attempt_number = n + (IF call.pc = "attempt" THEN 1 ELSE 0)
        /\ call.attempt_number <= 5
        /\ call.waits = SubSeq(<<1, 2, 4, 8>>, 1, call.attempt_number - 1)
        /\ call.slept = SumSeq(call.waits) + SumSeq(call.rl)
        /\ call.pc = "done" =>
              /\ n >= 1
              /\ Success(call) <=> IsJson2xx(call.hist[n])
              /\ Fatal(call) <=> (call.op = "get" /\ Is401(call.hist[n]))
              /\ Exhausted(call) <=>
                    (n = 5 /\ ~IsJson2xx(call.hist[n]) /\ ~(call.op = "get" /\ Is401(call.hist[n])))

\* C18: the retry state is local to one call: every call starts at attempt 1,
\* with the full budget of 5 attempts and the 1-second first backoff, however
\* many attempts earlier calls made, and the attempts, waits and outcome of
\* one of two interleaved calls never change those of the other.
C18_RetryStateLocal ==
    /\ [](\A c \in DOMAIN ex : OwnRetryState(ex[c]))
    /\ [][\A c \in DOMAIN ex :
             ex[c]' # ex[c] => \A d \in DOMAIN ex \ {c} : ex[d]' = ex[d]]_vars

\* witness of C18: after more than 10 requests on the session, one thread's
\* call has run out of its 5 attempts and the other's has succeeded on its 5th
C18_Witness ==
    /\ DOMAIN ex = {1, 2}
    /\ Len(wire) > 10
    /\ Exhausted(ex[1]) /\ Len(ex[1].hist) = 5
    /\ Success(ex[2]) /\ Len(ex[2].hist) = 5

====
